---------------------------- MODULE Spec2Model ----------------------------
(***************************************************************************)
(* TV-guide plugin data scripts: the channel fetcher                      *)
(* (scripts/generate-channels.py), the stub-data fetcher                  *)
(* (scripts/generate-stub-data.py) and the options generator              *)
(* (scripts/generate-options.py).                                         *)
(*                                                                         *)
(* Text is a sequence of character codes, so that formatting, parsing,    *)
(* substring tests, lower-casing and lexicographic comparison are          *)
(* computed the way Python computes them.  Time is counted in half days:  *)
(* a clock reading t prints as the two-digit day t \div 2, followed by    *)
(* the fraction ".5" only when it is not zero, the way                    *)
(* datetime.isoformat() leaves out a zero microsecond field.              *)
(***************************************************************************)
EXTENDS Integers, Sequences, FiniteSets, TLC

(***************************************************************************)
(* Characters and strings                                                  *)
(***************************************************************************)

\* Python's ord() on the characters the model uses.
Ord(c) ==
    CASE c = " " -> 32 [] c = "+" -> 43 [] c = "," -> 44 [] c = "-" -> 45
      [] c = "." -> 46
      [] c = "0" -> 48 [] c = "1" -> 49 [] c = "2" -> 50 [] c = "4" -> 52
      [] c = "5" -> 53 [] c = "9" -> 57 [] c = ":" -> 58 [] c = "=" -> 61
      [] c = "A" -> 65 [] c = "B" -> 66 [] c = "N" -> 78 [] c = "U" -> 85
      [] c = "X" -> 88 [] c = "Z" -> 90 [] c = "a" -> 97 [] c = "b" -> 98
      [] c = "e" -> 101 [] c = "i" -> 105 [] c = "k" -> 107 [] c = "l" -> 108
      [] c = "m" -> 109 [] c = "n" -> 110 [] c = "o" -> 111 [] c = "r" -> 114
      [] c = "t" -> 116 [] c = "u" -> 117 [] c = "w" -> 119 [] c = "|" -> 124

IsDigit(ch) == ch >= Ord("0") /\ ch <= Ord("9")

\* str.lower() on one character and on a string (ASCII letters).
LowerChar(ch) == IF ch >= 65 /\ ch <= 90 THEN ch + 32 ELSE ch

Lower(s) == [i \in 1..Len(s) |-> LowerChar(s[i])]

\* Python's < on str: the first differing code point decides, a proper
\* prefix is smaller.
StrLess(a, b) ==
    \E i \in 1..(Len(a) + 1) :
        /\ i <= Len(b)
        /\ \A j \in 1..(i - 1) : a[j] = b[j]
        /\ \/ i = Len(a) + 1
           \/ (i <= Len(a) /\ a[i] < b[i])

\* Python's "sub in s".
Contains(s, sub) ==
    \E i \in 0..(Len(s) - Len(sub)) :
        \A j \in 1..Len(sub) : s[i + j] = sub[j]

\* str.replace("Z", "").
RemoveZ(s) == SelectSeq(s, LAMBDA ch : ch # Ord("Z"))

(***************************************************************************)
(* Time stamps (generate-channels.py)                                      *)
(***************************************************************************)

COUNTRIES_MAX_AGE_DAYS == 7

\* How far the clock may run past its first reading, in half days.
Horizon == 3

\* The first clock reading: late enough for a cache written on day 0 to be
\* older than the maximum age.
StartTime == 2 * (COUNTRIES_MAX_AGE_DAYS + 1)

MaxTime == StartTime + Horizon

Times == 0..MaxTime

\* datetime.isoformat(): the fraction is printed only when it is not zero.
IsoFormat(t) ==
    <<Ord("0") + ((t \div 2) \div 10), Ord("0") + ((t \div 2) % 10)>>
        \o (IF t % 2 = 0 THEN <<>> ELSE <<Ord("."), Ord("5")>>)

\* get_utc_timestamp(): the clock reading, formatted, with "Z" appended.
get_utc_timestamp(t) == IsoFormat(t) \o <<Ord("Z")>>

\* The "+00:00" a timezone-aware ISO-8601 UTC string ends with.
UtcOffset == <<Ord("+"), Ord("0"), Ord("0"), Ord(":"), Ord("0"), Ord("0")>>

IsNaiveIso(s) ==
    /\ Len(s) \in {2, 4}
    /\ IsDigit(s[1]) /\ IsDigit(s[2])
    /\ Len(s) = 4 => (s[3] = Ord(".") /\ s[4] \in {Ord("0"), Ord("5")})

NaiveValue(s) ==
    2 * (10 * (s[1] - Ord("0")) + (s[2] - Ord("0")))
        + (IF Len(s) = 4 /\ s[4] = Ord("5") THEN 1 ELSE 0)

\* datetime.fromisoformat(): a naive datetime, a timezone-aware datetime
\* (the string carries a UTC offset), or ValueError.
fromisoformat(s) ==
    IF IsNaiveIso(s)
    THEN [kind |-> "naive", t |-> NaiveValue(s)]
    ELSE IF /\ Len(s) > Len(UtcOffset)
            /\ SubSeq(s, Len(s) - Len(UtcOffset) + 1, Len(s)) = UtcOffset
            /\ IsNaiveIso(SubSeq(s, 1, Len(s) - Len(UtcOffset)))
         THEN [kind |-> "aware",
               t |-> NaiveValue(SubSeq(s, 1, Len(s) - Len(UtcOffset)))]
         ELSE [kind |-> "ValueError", t |-> 0]

\* is_data_stale(timestamp_str, max_age_days) at clock reading t.  ValueError
\* is caught and answers "stale"; subtracting an aware datetime from
\* utcnow() raises TypeError, which is not caught.
is_data_stale(timestamp_str, max_age_days, t) ==
    LET parsed == fromisoformat(RemoveZ(timestamp_str))
    IN  CASE parsed.kind = "ValueError" -> "stale"
          [] parsed.kind = "aware" -> "TypeError"
          [] OTHER -> IF t - parsed.t > 2 * max_age_days
                      THEN "stale" ELSE "fresh"

(***************************************************************************)
(* Values                                                                  *)
(***************************************************************************)

\* Python's None and a present value, as a sequence of no or one element.
None == <<>>

Some(x) == <<x>>

\* dict.get(key, default) on an optional field.
dict_get(field, default) == IF field = None THEN default ELSE field[1]

\* A path with no file, a file that is not valid JSON (open(path, 'w') has
\* truncated it and json.dump() has not finished), and a JSON file.
NoFile == [kind |-> "absent"]

PartialFile == [kind |-> "partial"]

JsonFile(content) == [kind |-> "json", content |-> content]

\* Country ids, as the API spells them.
Id1 == <<Ord("1")>>

Id2 == <<Ord("2")>>

Id429 == <<Ord("4"), Ord("2"), Ord("9")>>

\* The countries the API knows, in the order it lists them.
CountryList == <<Id1, Id429, Id2>>

Ids == {CountryList[i] : i \in 1..Len(CountryList)}

\* What the "countries" resource may answer with.
ApiCountries == {CountryList, <<>>}

\* What a failed request fails with: no response at all (0), or a status
\* that raise_for_status() turns into an HTTPError.
Failures == {0, 404, 429}

\* The HTTP status of a rate-limited request.
TooManyRequests == 429

(***************************************************************************)
(* State                                                                   *)
(***************************************************************************)

VARIABLES
    script,             \* which script this process runs
    pc,                 \* the process's position
    now,                \* the wall clock, in half days
    API_KEY,            \* whether the environment sets API_KEY
    TEST_CHANNEL_IDS,   \* the environment's TEST_CHANNEL_IDS ("" when unset)
    dataDir,            \* whether DATA_DIR exists
    stubDir,            \* whether STUB_DIR exists
    countriesFile,      \* COUNTRIES_FILE
    channelsFile,       \* CHANNELS_FILE
    stubFiles,          \* the channel ids with a file under STUB_DIR
    countries,          \* main(): countries
    data,               \* fetch_countries(): data
    channels_data,      \* main(): channels_data
    countries_to_fetch, \* main(): countries_to_fetch
    idx,                \* main(): position of the for loop
    channel_ids,        \* generate-stub-data main(): channel_ids
    success_count,      \* generate-stub-data main(): success_count
    log,                \* the requests this process has sent, with results
    loadTime,           \* the clock reading load_countries() saw
    start,              \* the disk as this process found it
    options_in,         \* generate-options: the cache files it reads
    options_out         \* generate-options: what it leaves in options.yml

vars == <<script, pc, now, API_KEY, TEST_CHANNEL_IDS, dataDir, stubDir,
          countriesFile, channelsFile, stubFiles, countries, data,
          channels_data, countries_to_fetch, idx, channel_ids,
          success_count, log, loadTime, start, options_in, options_out>>

envVars == <<script, API_KEY, TEST_CHANNEL_IDS>>

diskVars == <<dataDir, stubDir, countriesFile, channelsFile, stubFiles>>

channelVars == <<countries, data, channels_data, countries_to_fetch, idx,
                 loadTime>>

stubVars == <<channel_ids, success_count>>

optionVars == <<options_in, options_out>>

Disk == [dataDir |-> dataDir, stubDir |-> stubDir,
         countriesFile |-> countriesFile, channelsFile |-> channelsFile,
         stubFiles |-> stubFiles]

(***************************************************************************)
(* generate-channels.py: helpers                                           *)
(***************************************************************************)

\* The decimal digits of an HTTP status.
StatusText(status) ==
    <<Ord("0") + (status \div 100), Ord("0") + ((status \div 10) % 10),
      Ord("0") + (status % 10)>>

\* The part of the request URL that varies: "...&countryId=<id>", written
\* "u=<id>".  The API token is taken to hold neither "429" nor "rate limit".
UrlText(country_id) == <<Ord("u"), Ord("=")>> \o country_id

\* str(e) of the RequestException: an HTTPError reads
\* "<status> ... Error: ... for url: <url>", a connection error names the
\* url it could not reach.
ErrorText(status, country_id) ==
    (IF status = 0 THEN <<>> ELSE StatusText(status) \o <<Ord(" ")>>)
        \o UrlText(country_id)

RateLimitText ==
    <<Ord("r"), Ord("a"), Ord("t"), Ord("e"), Ord(" "),
      Ord("l"), Ord("i"), Ord("m"), Ord("i"), Ord("t")>>

\* Mutant of IsRateLimitError: the status in the text is not looked for.
IsRateLimitError_TextOnly(text) == Contains(Lower(text), RateLimitText)

\* The test of line 117: "429" in str(e) or "rate limit" in str(e).lower().
IsRateLimitError(text) ==
    \/ Contains(text, StatusText(TooManyRequests))
    \/ Contains(Lower(text), RateLimitText)

\* The value fetch_channels_for_country() returns on a RequestException.
FailureResult(status, country_id) ==
    IF IsRateLimitError(ErrorText(status, country_id)) THEN "False" ELSE "None"

\* The channels the API lists for a country.
ChannelsOf(country_id) == <<country_id>>

\* all_channels_data[country_id] = {...}
DictSet(d, key, value) ==
    [k \in (DOMAIN d) \cup {key} |-> IF k = key THEN value ELSE d[k]]

EmptyDict == [k \in {} |-> None]

\* The tuple main() appends for one country: the timestamp is None when
\* the country has no entry in channels_data.
Categorize(country_id, cache) ==
    IF country_id \notin DOMAIN cache
    THEN [id |-> country_id, timestamp |-> None]
    ELSE [id |-> country_id, timestamp |-> Some(cache[country_id].timestamp)]

\* The sort key of line 154: (x[2] is not None, x[2] or "").
SortKey(x) == [present |-> x.timestamp # None,
               text |-> dict_get(x.timestamp, <<>>)]

\* Python's < on the key tuples: False < True, then str order.
KeyLess(a, b) ==
    \/ (~a.present /\ b.present)
    \/ (a.present = b.present /\ StrLess(a.text, b.text))

\* list.sort(key=...) is a stable sort: an element comes behind the
\* elements with a smaller key and behind those with an equal key that
\* stood before it.
SortByKey(xs) ==
    LET n == Len(xs)
        ahead(i) ==
            {j \in 1..n :
                \/ KeyLess(SortKey(xs[j]), SortKey(xs[i]))
                \/ (~KeyLess(SortKey(xs[i]), SortKey(xs[j])) /\ j < i)}
    IN  [p \in 1..n |->
            xs[CHOOSE i \in 1..n : Cardinality(ahead(i)) = p - 1]]

\* Mutant of FetchOrder: the sort of line 154 is left out.
FetchOrder_Unsorted(country_list, cache) ==
    [i \in 1..Len(country_list) |-> Categorize(country_list[i], cache)]

\* Lines 138-154: categorize the countries, then sort.
FetchOrder(country_list, cache) ==
    SortByKey([i \in 1..Len(country_list) |->
                  Categorize(country_list[i], cache)])

\* main() after load_countries(): "if not countries: return".
AfterLoad(loaded) ==
    IF loaded = None \/ loaded[1] = <<>> THEN "done" ELSE "load_channels"

Request(resource, id, status, ret) ==
    [resource |-> resource, id |-> id, status |-> status, ret |-> ret]

SetLast(s, field, value) ==
    [s EXCEPT ![Len(s)] = [s[Len(s)] EXCEPT ![field] = value]]

(***************************************************************************)
(* generate-stub-data.py: helpers                                          *)
(***************************************************************************)

\* str.split(",")
RECURSIVE Split(_)
Split(s) ==
    IF \A i \in 1..Len(s) : s[i] # Ord(",")
    THEN <<s>>
    ELSE LET at == CHOOSE i \in 1..Len(s) :
                       /\ s[i] = Ord(",")
                       /\ \A j \in 1..(i - 1) : s[j] # Ord(",")
         IN  <<SubSeq(s, 1, at - 1)>> \o Split(SubSeq(s, at + 1, Len(s)))

\* str.strip() (blanks)
RECURSIVE Strip(_)
Strip(s) ==
    IF s = <<>> THEN s
    ELSE IF s[1] = Ord(" ") THEN Strip(Tail(s))
    ELSE IF s[Len(s)] = Ord(" ") THEN Strip(SubSeq(s, 1, Len(s) - 1))
    ELSE s

\* Line 56: [ch_id.strip() for ch_id in TEST_CHANNEL_IDS.split(",") if ch_id.strip()]
ParseChannelIds(text) ==
    LET parts == Split(text)
        kept == SelectSeq(parts, LAMBDA part : Strip(part) # <<>>)
    IN  [i \in 1..Len(kept) |-> Strip(kept[i])]

(***************************************************************************)
(* The fetchers: initial states                                            *)
(***************************************************************************)

\* The countries cache a run may find: none, or a JSON file whose timestamp
\* is missing, empty, malformed, written by fetch_countries() on day 0, on
\* day 1 (seven days old at the first clock reading) or half a day later,
\* or an ISO-8601 UTC string with an explicit offset.
InitTimestamps ==
    {None, Some(<<>>), Some(<<Ord("X")>>),
     Some(get_utc_timestamp(0)),
     Some(get_utc_timestamp(StartTime - 2 * COUNTRIES_MAX_AGE_DAYS)),
     Some(get_utc_timestamp(StartTime - 2 * COUNTRIES_MAX_AGE_DAYS + 1)),
     Some(IsoFormat(0) \o UtcOffset)}

InitCountriesFiles ==
    {NoFile}
        \cup {JsonFile([data |-> CountryList, timestamp |-> ts]) :
                  ts \in InitTimestamps}

\* TEST_CHANNEL_IDS: unset, without any id, or with two ids.
InitTestChannelIds ==
    {<<>>, <<Ord(",")>>, <<Ord("1"), Ord(","), Ord(" "), Ord("2")>>}

\* A process that has just started.
Fresh ==
    /\ pc = "mkdir"
    /\ countries = None
    /\ data = None
    /\ channels_data = EmptyDict
    /\ countries_to_fetch = <<>>
    /\ idx = 0
    /\ channel_ids = <<>>
    /\ success_count = 0
    /\ log = <<>>
    /\ loadTime = 0

Init ==
    /\ script \in {"channels", "stub"}
    /\ API_KEY \in BOOLEAN
    /\ TEST_CHANNEL_IDS \in
           (IF script = "stub" THEN InitTestChannelIds ELSE {<<>>})
    /\ dataDir \in BOOLEAN
    /\ stubDir = FALSE
    /\ countriesFile \in
           (IF dataDir /\ script = "channels"
            THEN InitCountriesFiles ELSE {NoFile})
    /\ channelsFile = NoFile
    /\ stubFiles = {}
    /\ now = StartTime
    /\ Fresh
    /\ start = Disk
    /\ options_in = [countries |-> NoFile, channels |-> NoFile]
    /\ options_out = None

(***************************************************************************)
(* Module start-up of both fetchers                                        *)
(***************************************************************************)

Running ==
    pc \in {"mkdir", "env", "load_countries", "countries_write",
            "load_channels", "loop", "channels_write", "stub_main",
            "stub_loop"}

\* generate-channels.py line 20: DATA_DIR.mkdir(exist_ok=True);
\* generate-stub-data.py line 14: STUB_DIR.mkdir(parents=True, exist_ok=True).
Mkdir ==
    /\ pc = "mkdir"
    /\ dataDir' = TRUE
    /\ stubDir' = (IF script = "stub" THEN TRUE ELSE stubDir)
    /\ pc' = "env"
    /\ UNCHANGED <<envVars, now, countriesFile, channelsFile, stubFiles,
                   channelVars, stubVars, log, start, optionVars>>

\* The configuration a script raises ValueError without.
ConfigMissing ==
    \/ ~API_KEY
    \/ (script = "stub" /\ TEST_CHANNEL_IDS = <<>>)

\* generate-channels.py lines 23-27, generate-stub-data.py lines 17-25.
CheckEnv ==
    /\ pc = "env"
    /\ pc' = (IF ConfigMissing THEN "aborted"
              ELSE IF script = "channels" THEN "load_countries"
              ELSE "stub_main")
    /\ UNCHANGED <<envVars, now, diskVars, channelVars, stubVars, log,
                   start, optionVars>>

(***************************************************************************)
(* generate-channels.py: load_countries() and fetch_countries()            *)
(***************************************************************************)

\* What is_data_stale() answers for the cached file at this clock reading.
CachedStaleness ==
    is_data_stale(dict_get(countriesFile.content.timestamp, <<>>),
                  COUNTRIES_MAX_AGE_DAYS, now)

\* load_countries() goes on to fetch_countries().
NeedsFetch ==
    \/ countriesFile.kind = "absent"
    \/ (countriesFile.kind = "json" /\ CachedStaleness = "stale")

\* Lines 72-78: the cache is there and not stale.
LoadCountriesCached ==
    /\ pc = "load_countries"
    /\ countriesFile.kind = "json"
    /\ CachedStaleness = "fresh"
    /\ countries' = Some(countriesFile.content.data)
    /\ loadTime' = now
    /\ pc' = AfterLoad(countries')
    /\ UNCHANGED <<envVars, now, diskVars, data, channels_data,
                   countries_to_fetch, idx, stubVars, log, start,
                   optionVars>>

\* Line 74 raises JSONDecodeError on a file that is not JSON; line 39
\* raises TypeError on a timezone-aware timestamp.
LoadCountriesRaise ==
    /\ pc = "load_countries"
    /\ \/ countriesFile.kind = "partial"
       \/ (countriesFile.kind = "json" /\ CachedStaleness = "TypeError")
    /\ loadTime' = now
    /\ pc' = "raised"
    /\ UNCHANGED <<envVars, now, diskVars, countries, data, channels_data,
                   countries_to_fetch, idx, stubVars, log, start,
                   optionVars>>

\* fetch_countries(), lines 50-52 and 65-67: the request fails.
FetchCountriesFail ==
    /\ pc = "load_countries"
    /\ NeedsFetch
    /\ \E status \in Failures :
           log' = Append(log, Request("countries", <<>>, status, "None"))
    /\ countries' = None
    /\ loadTime' = now
    /\ pc' = AfterLoad(countries')
    /\ UNCHANGED <<envVars, now, diskVars, data, channels_data,
                   countries_to_fetch, idx, stubVars, start, optionVars>>

\* fetch_countries(), lines 50-60: the request succeeds, data is built and
\* open(COUNTRIES_FILE, 'w') truncates the file.
FetchCountriesOpen ==
    /\ pc = "load_countries"
    /\ NeedsFetch
    /\ \E answer \in ApiCountries :
           data' = Some([data |-> answer,
                         timestamp |-> Some(get_utc_timestamp(now))])
    /\ countriesFile' = PartialFile
    /\ log' = Append(log, Request("countries", <<>>, 200, "pending"))
    /\ loadTime' = now
    /\ pc' = "countries_write"
    /\ UNCHANGED <<envVars, now, dataDir, stubDir, channelsFile, stubFiles,
                   countries, channels_data, countries_to_fetch, idx,
                   stubVars, start, optionVars>>

\* fetch_countries(), lines 61-64: json.dump() completes, countries is
\* returned.
FetchCountriesDump ==
    /\ pc = "countries_write"
    /\ countriesFile' = JsonFile(data[1])
    /\ countries' = Some(data[1].data)
    /\ log' = SetLast(log, "ret", "data")
    /\ pc' = AfterLoad(countries')
    /\ UNCHANGED <<envVars, now, dataDir, stubDir, channelsFile, stubFiles,
                   data, channels_data, countries_to_fetch, idx, loadTime,
                   stubVars, start, optionVars>>

(***************************************************************************)
(* generate-channels.py: main()                                            *)
(***************************************************************************)

\* Lines 135-154: load_channels_data(), categorize, sort.
LoadChannels ==
    /\ pc = "load_channels"
    /\ channelsFile.kind # "partial"
    /\ LET loaded == IF channelsFile.kind = "absent" THEN EmptyDict
                      ELSE channelsFile.content
       IN  /\ channels_data' = loaded
           /\ countries_to_fetch' = FetchOrder(countries[1], loaded)
    /\ idx' = 1
    /\ pc' = "loop"
    /\ UNCHANGED <<envVars, now, diskVars, countries, data, loadTime,
                   stubVars, log, start, optionVars>>

\* Line 89 raises JSONDecodeError on a file that is not JSON.
LoadChannelsRaise ==
    /\ pc = "load_channels"
    /\ channelsFile.kind = "partial"
    /\ pc' = "raised"
    /\ UNCHANGED <<envVars, now, diskVars, channelVars, stubVars, log,
                   start, optionVars>>

\* Mutant of FetchChannelsFail: CHANNELS_FILE is opened for writing before
\* the request is sent, so a failed request leaves it truncated.
FetchChannelsFail_Truncates ==
    /\ pc = "loop"
    /\ idx <= Len(countries_to_fetch)
    /\ \E status \in Failures :
           LET id == countries_to_fetch[idx].id
               ret == FailureResult(status, id)
           IN  /\ log' = Append(log, Request("channelsOfCountry", id,
                                             status, ret))
               /\ pc' = (IF ret = "False" THEN "done" ELSE "loop")
               /\ idx' = (IF ret = "False" THEN idx ELSE idx + 1)
    /\ channelsFile' = PartialFile
    /\ UNCHANGED <<envVars, now, dataDir, stubDir, countriesFile, stubFiles,
                   countries, data, channels_data, countries_to_fetch,
                   loadTime, stubVars, start, optionVars>>

\* fetch_channels_for_country(), lines 98-100 and 115-120, and the loop's
\* lines 165-167: the request fails.
FetchChannelsFail ==
    /\ pc = "loop"
    /\ idx <= Len(countries_to_fetch)
    /\ \E status \in Failures :
           LET id == countries_to_fetch[idx].id
               ret == FailureResult(status, id)
           IN  /\ log' = Append(log, Request("channelsOfCountry", id,
                                             status, ret))
               /\ pc' = (IF ret = "False" THEN "done" ELSE "loop")
               /\ idx' = (IF ret = "False" THEN idx ELSE idx + 1)
    /\ UNCHANGED <<envVars, now, diskVars, countries, data, channels_data,
                   countries_to_fetch, loadTime, stubVars, start,
                   optionVars>>

\* fetch_channels_for_country(), lines 98-110: the request succeeds, the
\* entry is set and open(CHANNELS_FILE, 'w') truncates the file.
FetchChannelsOpen ==
    /\ pc = "loop"
    /\ idx <= Len(countries_to_fetch)
    /\ LET id == countries_to_fetch[idx].id
       IN  /\ channels_data' =
                  DictSet(channels_data, id,
                          [data |-> ChannelsOf(id),
                           timestamp |-> get_utc_timestamp(now)])
           /\ log' = Append(log, Request("channelsOfCountry", id, 200,
                                         "pending"))
    /\ channelsFile' = PartialFile
    /\ pc' = "channels_write"
    /\ UNCHANGED <<envVars, now, dataDir, stubDir, countriesFile, stubFiles,
                   countries, data, countries_to_fetch, idx, loadTime,
                   stubVars, start, optionVars>>

\* fetch_channels_for_country(), lines 111-114: json.dump() completes.
FetchChannelsDump ==
    /\ pc = "channels_write"
    /\ channelsFile' = JsonFile(channels_data)
    /\ log' = SetLast(log, "ret", "True")
    /\ idx' = idx + 1
    /\ pc' = "loop"
    /\ UNCHANGED <<envVars, now, dataDir, stubDir, countriesFile, stubFiles,
                   countries, data, channels_data, countries_to_fetch,
                   loadTime, stubVars, start, optionVars>>

\* The for loop of line 157 runs out.
LoopEnd ==
    /\ pc = "loop"
    /\ idx > Len(countries_to_fetch)
    /\ pc' = "done"
    /\ UNCHANGED <<envVars, now, diskVars, channelVars, stubVars, log,
                   start, optionVars>>

(***************************************************************************)
(* generate-stub-data.py: main() and fetch_channel_programs()              *)
(***************************************************************************)

\* Lines 56-60.
StubMain ==
    /\ pc = "stub_main"
    /\ channel_ids' = ParseChannelIds(TEST_CHANNEL_IDS)
    /\ idx' = 1
    /\ pc' = (IF channel_ids' = <<>> THEN "done" ELSE "stub_loop")
    /\ UNCHANGED <<envVars, now, diskVars, countries, data, channels_data,
                   countries_to_fetch, loadTime, success_count, log, start,
                   optionVars>>

\* Lines 33-44 and 69-70: the programs are fetched and saved.
StubFetchOk ==
    /\ pc = "stub_loop"
    /\ idx <= Len(channel_ids)
    /\ stubFiles' = stubFiles \cup {channel_ids[idx]}
    /\ success_count' = success_count + 1
    /\ log' = Append(log, Request("programsOfChannel", channel_ids[idx],
                                  200, "True"))
    /\ idx' = idx + 1
    /\ UNCHANGED <<envVars, pc, now, dataDir, stubDir, countriesFile,
                   channelsFile, countries, data, channels_data,
                   countries_to_fetch, loadTime, channel_ids, start,
                   optionVars>>

\* Lines 45-47: the request fails.
StubFetchFail ==
    /\ pc = "stub_loop"
    /\ idx <= Len(channel_ids)
    /\ \E status \in Failures :
           log' = Append(log, Request("programsOfChannel", channel_ids[idx],
                                      status, "False"))
    /\ idx' = idx + 1
    /\ UNCHANGED <<envVars, pc, now, diskVars, countries, data,
                   channels_data, countries_to_fetch, loadTime, stubVars,
                   start, optionVars>>

\* The for loop of line 67 runs out.
StubEnd ==
    /\ pc = "stub_loop"
    /\ idx > Len(channel_ids)
    /\ pc' = "done"
    /\ UNCHANGED <<envVars, now, diskVars, channelVars, stubVars, log,
                   start, optionVars>>

(***************************************************************************)
(* The environment of a fetcher process                                    *)
(***************************************************************************)

\* The process is terminated.
Kill ==
    /\ Running
    /\ pc' = "killed"
    /\ UNCHANGED <<envVars, now, diskVars, channelVars, stubVars, log,
                   start, optionVars>>

\* The script is run again.
Rerun ==
    /\ pc \in {"done", "aborted", "raised", "killed"}
    /\ pc' = "mkdir"
    /\ countries' = None
    /\ data' = None
    /\ channels_data' = EmptyDict
    /\ countries_to_fetch' = <<>>
    /\ idx' = 0
    /\ channel_ids' = <<>>
    /\ success_count' = 0
    /\ log' = <<>>
    /\ loadTime' = 0
    /\ start' = Disk
    /\ UNCHANGED <<envVars, now, diskVars, optionVars>>

\* Time passes.
Tick ==
    /\ script \in {"channels", "stub"}
    /\ now < MaxTime
    /\ now' = now + 1
    /\ UNCHANGED <<envVars, pc, diskVars, channelVars, stubVars, log, start,
                   optionVars>>

Next ==
    \/ Mkdir \/ CheckEnv
    \/ LoadCountriesCached \/ LoadCountriesRaise
    \/ FetchCountriesFail \/ FetchCountriesOpen \/ FetchCountriesDump
    \/ LoadChannels \/ LoadChannelsRaise
    \/ FetchChannelsFail \/ FetchChannelsOpen \/ FetchChannelsDump
    \/ LoopEnd
    \/ StubMain \/ StubFetchOk \/ StubFetchFail \/ StubEnd
    \/ Kill \/ Rerun \/ Tick

Spec == Init /\ [][Next]_vars

(***************************************************************************)
(* Properties of the fetchers                                              *)
(***************************************************************************)

Last(s) == s[Len(s)]

\* The requests for one resource, in the order they were sent.
Requests(resource) == SelectSeq(log, LAMBDA r : r.resource = resource)

\* The entry a keyed cache file holds for a country, or None.
EntryOf(file, id) ==
    IF file.kind = "json" /\ id \in DOMAIN file.content
    THEN Some(file.content[id]) ELSE None

\* The moment a cache timestamp names.
TimeOf(timestamp) == fromisoformat(RemoveZ(timestamp)).t

\* load_countries() has returned or raised.
LoadCountriesOver ==
    /\ script = "channels"
    /\ pc \in {"load_channels", "loop", "channels_write", "done", "raised"}

\* The countries cache the process found exists, its timestamp parses and
\* its age, when load_countries() looked, was at most the maximum age.
CacheUsable ==
    /\ start.countriesFile.kind = "json"
    /\ LET parsed == fromisoformat(RemoveZ(
                         dict_get(start.countriesFile.content.timestamp, <<>>)))
       IN  /\ parsed.kind # "ValueError"
           /\ loadTime - parsed.t <= 2 * COUNTRIES_MAX_AGE_DAYS

\* C1: load_countries() sends no request and returns the cached data when
\* the cache file exists, its timestamp parses and its age is at most the
\* maximum age; in every other case it sends exactly one request.
C1_LoadCountriesCalls ==
    LoadCountriesOver =>
        IF CacheUsable
        THEN /\ Len(Requests("countries")) = 0
             /\ countries = Some(start.countriesFile.content.data)
        ELSE Len(Requests("countries")) = 1

\* C2: in one run, every country without a cache entry is fetched before
\* any country with one, and countries with entries are fetched oldest
\* timestamp first.
C2_FetchOrder ==
    LET sent == Requests("channelsOfCountry")
        had(i) == EntryOf(start.channelsFile, sent[i].id)
    IN  script = "channels" =>
            \A i, j \in 1..Len(sent) :
                i < j =>
                    /\ ~(had(i) # None /\ had(j) = None)
                    /\ (had(i) # None /\ had(j) # None) =>
                           TimeOf(had(i)[1].timestamp)
                               <= TimeOf(had(j)[1].timestamp)

\* The last request was for a country's channels and was rate limited.
RateLimited ==
    /\ script = "channels"
    /\ log # <<>>
    /\ Last(log).resource = "channelsOfCountry"
    /\ Last(log).status = TooManyRequests

\* C3: when the fetch of the k-th country of the batch is rate limited the
\* loop halts: the fetches of countries 1..k-1 that succeeded are on disk,
\* no request is sent for countries k+1..n, and the entries of countries
\* k..n are as they were before the run.
C3_RateLimitHalts ==
    RateLimited =>
        LET sent == Requests("channelsOfCountry")
            k == Len(sent)
        IN  /\ pc = "done"
            /\ channelsFile.kind # "partial"
            /\ \A i \in 1..k : sent[i].id = countries_to_fetch[i].id
            /\ \A i \in 1..(k - 1) :
                   sent[i].ret = "True" =>
                       /\ sent[i].id \in DOMAIN channels_data
                       /\ channels_data[sent[i].id].data
                              = ChannelsOf(sent[i].id)
                       /\ EntryOf(channelsFile, sent[i].id)
                              = Some(channels_data[sent[i].id])
            /\ \A i \in k..Len(countries_to_fetch) :
                   EntryOf(channelsFile, countries_to_fetch[i].id)
                       = EntryOf(start.channelsFile, countries_to_fetch[i].id)

\* C3 witness: the second of three countries is rate limited after the
\* first was fetched and saved.
C3_Witness ==
    /\ RateLimited
    /\ Len(countries_to_fetch) = 3
    /\ Len(Requests("channelsOfCountry")) = 2
    /\ Requests("channelsOfCountry")[1].ret = "True"

\* A step in which a request of the channel fetcher fails.
FetchFails ==
    /\ script = "channels"
    /\ Len(log') = Len(log) + 1
    /\ Last(log').status # 200

\* A step within a fetch that succeeded: the request that succeeds, or
\* the json.dump() that follows it.
FetchSucceeds(resource) ==
    /\ script = "channels"
    /\ log' # <<>>
    /\ Last(log').resource = resource
    /\ Last(log').status = 200
    /\ \/ Len(log') = Len(log) + 1
       \/ (Len(log') = Len(log) /\ Last(log).ret = "pending"
           /\ Last(log').ret # "pending")

\* C4: a failed fetch, of the countries or of a country's channels, leaves
\* both cache files as they are and returns None or False; a cache file
\* changes only in a fetch that succeeded.
C4_FailedFetchKeepsFiles ==
    [][/\ FetchFails =>
              /\ countriesFile' = countriesFile
              /\ channelsFile' = channelsFile
              /\ Last(log').ret \in {"None", "False"}
              /\ Last(log').resource = "countries" => countries' = None
       /\ countriesFile' # countriesFile => FetchSucceeds("countries")
       /\ channelsFile' # channelsFile => FetchSucceeds("channelsOfCountry")
      ]_vars

\* C4 witness: a fetch of a country's channels has failed while the keyed
\* cache file held entries, and one of the countries has failed while the
\* countries file existed.
C4_Witness ==
    /\ script = "channels"
    /\ log # <<>>
    /\ Last(log).status # 200
    /\ \/ (Last(log).resource = "channelsOfCountry"
           /\ channelsFile.kind = "json")
       \/ (Last(log).resource = "countries"
           /\ countriesFile.kind = "json")

\* C5: whenever the process is terminated, the keyed cache file is not
\* truncated or corrupt and still holds every key committed before, either
\* by an earlier run or earlier in this one.
C5_KillLosesAtMostOneKey ==
    (script = "channels" /\ pc = "killed") =>
        /\ channelsFile.kind # "partial"
        /\ \A id \in Ids :
               EntryOf(start.channelsFile, id) # None =>
                   EntryOf(channelsFile, id) # None
        /\ \A i \in 1..Len(log) :
               (log[i].resource = "channelsOfCountry" /\ log[i].ret = "True")
                   => EntryOf(channelsFile, log[i].id) # None

\* C6: a failed fetch of a country's channels that is not rate limited
\* returns None, the loop goes on to every remaining country, and the
\* failed country's entry stays as it was, in memory and on disk.
C6_OtherFailuresSkip ==
    script = "channels" =>
        /\ \A i \in 1..Len(log) :
               (/\ log[i].resource = "channelsOfCountry"
                /\ log[i].status \notin {200, TooManyRequests})
                   => log[i].ret = "None"
        /\ (/\ pc = "done"
            /\ countries_to_fetch # <<>>
            /\ \A i \in 1..Len(log) : log[i].status # TooManyRequests)
               => Len(Requests("channelsOfCountry")) = Len(countries_to_fetch)

\* C10: when the API token, or the stub fetcher's list of test ids, is
\* missing, the script has sent no request and has created or changed no
\* file or directory when it aborts.
C10_AbortBeforeAnyWork ==
    pc = "aborted" => (log = <<>> /\ Disk = start)

(***************************************************************************)
(* Re-invocation as the retry mechanism                                    *)
(***************************************************************************)

\* The channel fetcher is started with its API token; the countries cache
\* is absent or carries a timestamp of the form fetch_countries() writes.
RetryInit ==
    /\ Init
    /\ script = "channels"
    /\ API_KEY
    /\ countriesFile.kind = "json" =>
           \E t \in Times :
               countriesFile.content.timestamp = Some(get_utc_timestamp(t))

\* The countries request succeeds and lists the fixed set of countries.
RetryFetchCountries ==
    /\ FetchCountriesOpen
    /\ data'[1].data = CountryList

\* The only failure is the rate limit, and it lets at least one fetch of a
\* country's channels through in every invocation.
RetryRateLimited ==
    /\ FetchChannelsFail
    /\ Last(log').status = TooManyRequests
    /\ \E i \in 1..Len(log) :
           log[i].resource = "channelsOfCountry" /\ log[i].ret = "True"

\* Every process runs to its end and the script is run again.
RetryNext ==
    \/ Mkdir \/ CheckEnv
    \/ LoadCountriesCached \/ RetryFetchCountries \/ FetchCountriesDump
    \/ LoadChannels
    \/ RetryRateLimited \/ FetchChannelsOpen \/ FetchChannelsDump
    \/ LoopEnd
    \/ Rerun \/ Tick

RetrySpec == RetryInit /\ [][RetryNext]_vars /\ WF_vars(RetryNext)

\* Every country has an entry in the keyed cache file.
AllCommitted == \A id \in Ids : EntryOf(channelsFile, id) # None

\* Within one invocation, a country that had an entry is requested only
\* after every country that had none.
GapsFirst ==
    LET sent == Requests("channelsOfCountry")
    IN  \A i \in 1..Len(sent) :
            EntryOf(start.channelsFile, sent[i].id) # None =>
                \A id \in Ids :
                    EntryOf(start.channelsFile, id) = None =>
                        \E j \in 1..(i - 1) : sent[j].id = id

\* C7: under repeated invocations in which the rate limit lets at least
\* one fetch of a country's channels through and every other fetch
\* succeeds, every country eventually has a committed entry, and no
\* invocation refreshes a country before it has tried every country
\* without an entry.
C7_RetryFillsGaps == (<>AllCommitted) /\ []GapsFirst

\* C7 witness: the cache is complete in an invocation that found it
\* incomplete, left so by an earlier invocation the rate limit stopped.
C7_Witness ==
    /\ AllCommitted
    /\ start.channelsFile.kind = "json"
    /\ \E id \in Ids : EntryOf(start.channelsFile, id) = None
    /\ pc = "done"
    /\ Last(log).status = TooManyRequests

(***************************************************************************)
(* generate-options.py                                                     *)
(*                                                                         *)
(* The countries file is modelled by its "data" list, the channels file    *)
(* by its entries in file order (a dict keeps insertion order), each with  *)
(* its key and its "data" list.                                            *)
(***************************************************************************)

\* The largest number of channels the channels file holds in all.
MaxChannels == 3

UnknownText ==
    <<Ord("U"), Ord("n"), Ord("k"), Ord("n"), Ord("o"), Ord("w"), Ord("n")>>

\* x.get("display_name", x.get("name", "Unknown")), lines 67 and 73.
DisplayName(x) == dict_get(x.display_name, dict_get(x.name, UnknownText))

\* Python's truth value of channel.get("id"), line 75.
HasId(channel) == channel.id # None /\ channel.id[1] # <<>>

\* Lines 77-79: the option of one channel.
Option(country, channel) ==
    [label |-> DisplayName(country) \o <<Ord(" "), Ord("-"), Ord(" ")>>
                   \o DisplayName(channel),
     value |-> channel.id[1] \o <<Ord("|")>> \o DisplayName(channel)]

\* Line 55: {country["id"]: country for country in countries}; of two
\* countries with one id the later one stays.
CountryMap(country_list) ==
    [id \in {country_list[i].id : i \in 1..Len(country_list)} |->
        country_list[CHOOSE i \in 1..Len(country_list) :
                         /\ country_list[i].id = id
                         /\ \A j \in (i + 1)..Len(country_list) :
                                country_list[j].id # id]]

\* Lines 66-80: the options of one country's channels, in list order.
ChannelOptions(country, channels) ==
    LET kept == SelectSeq(channels, HasId)
    IN  [i \in 1..Len(kept) |-> Option(country, kept[i])]

\* Mutant of BuildOptions: an unknown country id ends the loop (break
\* where line 64 says continue).
RECURSIVE BuildOptions_Break(_, _)
BuildOptions_Break(country_map, entries) ==
    IF entries = <<>> THEN <<>>
    ELSE IF Head(entries).key \notin DOMAIN country_map THEN <<>>
    ELSE ChannelOptions(country_map[Head(entries).key], Head(entries).channels)
             \o BuildOptions_Break(country_map, Tail(entries))

\* Lines 58-80: the loop over channels_data.items(); an entry whose key is
\* not in country_map is skipped.
RECURSIVE BuildOptions(_, _)
BuildOptions(country_map, entries) ==
    IF entries = <<>> THEN <<>>
    ELSE (IF Head(entries).key \notin DOMAIN country_map THEN <<>>
          ELSE ChannelOptions(country_map[Head(entries).key],
                              Head(entries).channels))
             \o BuildOptions(country_map, Tail(entries))

\* Mutant of OptionSortKey: the label is compared as it is.
OptionSortKey_CaseSensitive(option) == option.label

\* Line 83: the sort key, list(x.keys())[0].lower().
OptionSortKey(option) == Lower(option.label)

\* Line 83: channel_options.sort(key=...), a stable sort.
SortOptions(options) ==
    LET n == Len(options)
        ahead(i) ==
            {j \in 1..n :
                \/ StrLess(OptionSortKey(options[j]), OptionSortKey(options[i]))
                \/ (/\ ~StrLess(OptionSortKey(options[i]),
                                OptionSortKey(options[j]))
                    /\ j < i)}
    IN  [p \in 1..n |->
            options[CHOOSE i \in 1..n : Cardinality(ahead(i)) = p - 1]]

\* load_countries() and load_channels(), lines 15-35: None without file.
LoadJson(file) == IF file.kind = "absent" THEN None ELSE Some(file.content)

\* Python's "not x" for None, a list or a dict.
Falsy(x) == IF x = None THEN TRUE ELSE x[1] = <<>>

\* Lines 44-83: the option list, given both inputs loaded.
GenerateOptions(country_list, entries) ==
    SortOptions(BuildOptions(CountryMap(country_list), entries))

\* The countries the countries file may list.
CountryUpper ==
    [id |-> Id1, display_name |-> Some(<<Ord("N")>>),
     name |-> Some(<<Ord("X")>>)]

CountryLower ==
    [id |-> Id2, display_name |-> None, name |-> Some(<<Ord("n")>>)]

CountryLists ==
    {<<>>, <<CountryUpper>>, <<CountryLower>>,
     <<CountryUpper, CountryLower>>, <<CountryLower, CountryUpper>>}

\* The channels the API may list: with a display name, with a name only,
\* and without an id.
ChannelPool ==
    {[id |-> Some(<<Ord("4")>>), display_name |-> Some(<<Ord("a")>>),
      name |-> None],
     [id |-> Some(<<Ord("5")>>), display_name |-> None,
      name |-> Some(<<Ord("B")>>)],
     [id |-> None, display_name |-> None, name |-> None]}

ChannelLists(n) == UNION {[1..k -> ChannelPool] : k \in 0..n}

\* The orders in which the channels file may hold its keys; Id429 is no
\* country of the countries file.
KeyOrders ==
    {ks \in UNION {[1..k -> {Id1, Id2, Id429}] : k \in 0..3} :
        \A i, j \in 1..Len(ks) : ks[i] = ks[j] => i = j}

\* The entries under the given keys that hold at most budget channels.
RECURSIVE Entries(_, _)
Entries(ks, budget) ==
    IF ks = <<>> THEN {<<>>}
    ELSE UNION {{<<[key |-> Head(ks), channels |-> list]>> \o rest :
                    rest \in Entries(Tail(ks), budget - Len(list))} :
                list \in ChannelLists(budget)}

ChannelFiles == UNION {Entries(ks, MaxChannels) : ks \in KeyOrders}

OptionsInit ==
    /\ script = "options"
    /\ pc = "start"
    /\ options_in \in
           [countries : {NoFile} \cup {JsonFile(c) : c \in CountryLists},
            channels : {NoFile} \cup {JsonFile(e) : e \in ChannelFiles}]
    /\ options_out = None
    /\ now = StartTime
    /\ API_KEY = FALSE
    /\ TEST_CHANNEL_IDS = <<>>
    /\ dataDir = TRUE
    /\ stubDir = FALSE
    /\ countriesFile = NoFile
    /\ channelsFile = NoFile
    /\ stubFiles = {}
    /\ countries = None
    /\ data = None
    /\ channels_data = EmptyDict
    /\ countries_to_fetch = <<>>
    /\ idx = 0
    /\ channel_ids = <<>>
    /\ success_count = 0
    /\ log = <<>>
    /\ loadTime = 0
    /\ start = Disk

\* create_options_yml(), lines 44-49: an input is missing or empty.
OptionsFail ==
    /\ script = "options"
    /\ pc = "start"
    /\ (Falsy(LoadJson(options_in.countries))
           \/ Falsy(LoadJson(options_in.channels)))
    /\ pc' = "failed"
    /\ UNCHANGED <<envVars, now, diskVars, channelVars, stubVars, log,
                   start, optionVars>>

\* create_options_yml(), lines 44-167: the options are built, sorted and
\* written.
OptionsWrite ==
    /\ script = "options"
    /\ pc = "start"
    /\ ~Falsy(LoadJson(options_in.countries))
    /\ ~Falsy(LoadJson(options_in.channels))
    /\ options_out' = Some(GenerateOptions(options_in.countries.content,
                                           options_in.channels.content))
    /\ pc' = "done"
    /\ UNCHANGED <<envVars, now, diskVars, channelVars, stubVars, log,
                   start, options_in>>

OptionsNext == OptionsFail \/ OptionsWrite

OptionsSpec == OptionsInit /\ [][OptionsNext]_vars

(***************************************************************************)
(* Properties of the options generator                                     *)
(***************************************************************************)

InCountries == options_in.countries.content

InEntries == options_in.channels.content

Generated == script = "options" /\ pc = "done"

Labels(options) == [p \in 1..Len(options) |-> options[p].label]

Swap(s, i, j) ==
    [k \in 1..Len(s) |-> IF k = i THEN s[j] ELSE IF k = j THEN s[i] ELSE s[k]]

\* The (entry, channel) positions of the channels that carry an identifier
\* and stand under a country of the countries list.
KnownPairs ==
    {pair \in (1..Len(InEntries)) \X (1..MaxChannels) :
        /\ pair[2] <= Len(InEntries[pair[1]].channels)
        /\ \E i \in 1..Len(InCountries) :
               InCountries[i].id = InEntries[pair[1]].key
        /\ InEntries[pair[1]].channels[pair[2]].id \notin {None, Some(<<>>)}}

\* "<country display name> - <channel display name>" of such a position.
PairLabel(pair) ==
    LET country == InCountries[CHOOSE i \in 1..Len(InCountries) :
                       InCountries[i].id = InEntries[pair[1]].key]
    IN  DisplayName(country) \o <<Ord(" "), Ord("-"), Ord(" ")>>
            \o DisplayName(InEntries[pair[1]].channels[pair[2]])

\* The options hold each label as often as the known pairs carry it.
OnePerPair(out) ==
    /\ Len(out) = Cardinality(KnownPairs)
    /\ \A pair \in KnownPairs :
           Cardinality({p \in 1..Len(out) : out[p].label = PairLabel(pair)})
               = Cardinality({q \in KnownPairs : PairLabel(q) = PairLabel(pair)})

\* C8: the option list holds one entry "<country> - <channel>" per known
\* country and channel with an identifier, in non-decreasing order of the
\* lower-cased label; when the lower-cased labels are distinct, exchanging
\* any two countries, any two entries of the channel cache or any two
\* channels of an entry leaves the sequence of labels the same.
C8_OptionsSorted ==
    Generated =>
        LET out == options_out[1]
        IN  /\ OnePerPair(out)
            /\ \A p, q \in 1..Len(out) :
                   p < q => ~StrLess(Lower(out[q].label), Lower(out[p].label))
            /\ (\A p, q \in 1..Len(out) :
                    Lower(out[p].label) = Lower(out[q].label) => p = q)
                   => /\ \A i, j \in 1..Len(InCountries) :
                             Labels(GenerateOptions(Swap(InCountries, i, j),
                                                    InEntries)) = Labels(out)
                      /\ \A i, j \in 1..Len(InEntries) :
                             Labels(GenerateOptions(InCountries,
                                                    Swap(InEntries, i, j)))
                                 = Labels(out)
                      /\ \A e \in 1..Len(InEntries) :
                             \A i, j \in 1..Len(InEntries[e].channels) :
                                 Labels(GenerateOptions(
                                     InCountries,
                                     [InEntries EXCEPT ![e].channels =
                                          Swap(@, i, j)])) = Labels(out)

\* C8 witness: the channel "B" was listed before the channel "a" of the
\* same country, and "N - a" comes out right before "N - B".
C8_Witness ==
    /\ Generated
    /\ \E e \in 1..Len(InEntries) :
           /\ InEntries[e].key = Id1
           /\ Len(InEntries[e].channels) >= 2
           /\ DisplayName(InEntries[e].channels[1]) = <<Ord("B")>>
           /\ DisplayName(InEntries[e].channels[2]) = <<Ord("a")>>
    /\ \E p \in 1..(Len(options_out[1]) - 1) :
           /\ options_out[1][p].label
                  = <<Ord("N"), Ord(" "), Ord("-"), Ord(" "), Ord("a")>>
           /\ options_out[1][p + 1].label
                  = <<Ord("N"), Ord(" "), Ord("-"), Ord(" "), Ord("B")>>

\* The channel cache holds an entry whose key is no country of the list.
UnknownParent ==
    /\ script = "options"
    /\ pc # "start"
    /\ options_in.countries.kind = "json"
    /\ options_in.channels.kind = "json"
    /\ \E e \in 1..Len(InEntries) :
           \A i \in 1..Len(InCountries) : InCountries[i].id # InEntries[e].key

\* The entries of the channel cache under countries of the list.
KnownEntries ==
    SelectSeq(InEntries,
              LAMBDA entry : \E i \in 1..Len(InCountries) :
                                 InCountries[i].id = entry.key)

\* The options are written, hold the channels under known countries and
\* nothing of the entries under unknown keys.
UnknownParentSkipped ==
    /\ pc = "done"
    /\ options_out # None
    /\ OnePerPair(options_out[1])
    /\ options_out[1] = GenerateOptions(InCountries, KnownEntries)

\* C9 as stated: an entry under an unknown key never aborts the
\* transformation, leaves no option behind and costs no other option.
C9_UnknownParentNeverAborts == UnknownParent => UnknownParentSkipped

\* C9 amended: the same, when the countries list is not empty.
C9_UnknownParentSkipped ==
    (UnknownParent /\ InCountries # <<>>) => UnknownParentSkipped

\* C9 witness: an entry under an unknown key stands before an entry under a
\* known country, whose channel is among the options.
C9_Witness ==
    /\ UnknownParent
    /\ pc = "done"
    /\ Len(InEntries) >= 2
    /\ InEntries[1].key = Id429
    /\ InEntries[1].channels # <<>>
    /\ HasId(InEntries[1].channels[1])
    /\ Len(options_out[1]) >= 1

=============================================================================
